---- MODULE Spec2Model ----
(***************************************************************************)
(* Model of the libfuse-fs utilities of rk8s:                              *)
(*   - UniqueInodeGenerator and validate_path_component                    *)
(*     (src/project/libfuse-fs/src/passthrough/util.rs)                    *)
(*   - BindManager / BindMount (src/project/libfuse-fs/src/util/bind.rs)   *)
(*   - BindMountManager (src/project/libfuse-fs/src/util/bind_mount.rs)    *)
(***************************************************************************)
EXTENDS Integers, Sequences, FiniteSets, TLC

VARIABLES
    dev_mntid_map,       \* UniqueInodeGenerator.dev_mntid_map: (dev, mnt) -> u8
    next_unique_id,      \* UniqueInodeGenerator.next_unique_id (AtomicU8)
    next_virtual_inode,  \* UniqueInodeGenerator.next_virtual_inode (AtomicU64)
    issued,              \* observation: the successful calls, as (id, value)
    last,                \* observation: the latest call, with the state before it
    ncalls,              \* observation: number of calls made
    name,                \* the path component last handed to validate_path_component
    vres,                \* what validate_path_component returned for it
    fs,                  \* the host's file tree: location -> "dir" or "file"
    symlinks,            \* the locations that hold a symlink to /etc
    mtab,                \* the host's mount table: the mounted locations, oldest first
    bm_mounts,           \* BindManager.mounts: the targets of its BindMounts
    bm_live,             \* the BindManager has not been dropped
    bmm_mounts,          \* BindMountManager.mounts: its MountPoints
    bmm_live,            \* the BindMountManager has not been dropped
    bind_last,           \* observation: the latest operation and its system calls
    decoded,             \* observation: the latest decode_unique_inode call
    parg,                \* the string last handed to a bind-specifier parser
    parsed,              \* which parser it was, and what it returned
    fh_host,             \* the host's answers to name_to_handle_at, per file
    fh_seen,             \* observation: what from_name_at returned so far, per file
    fh_last,             \* observation: the latest from_name_at call
    cmp_in,              \* the FileHandles handed to the comparisons
    cmp_out,             \* what the comparisons returned
    threads              \* the threads inside get_unique_inode: position, locals

genVars == <<dev_mntid_map, next_unique_id, next_virtual_inode, issued, last, ncalls,
             decoded>>
pathVars == <<name, vres>>
bindVars == <<fs, symlinks, mtab, bm_mounts, bm_live, bmm_mounts, bmm_live,
              bind_last>>
parseVars == <<parg, parsed>>
fhVars == <<fh_host, fh_seen, fh_last>>
cmpVars == <<cmp_in, cmp_out>>
concVars == <<threads>>
restVars == <<parseVars, fhVars, cmpVars, concVars>>
vars == <<genVars, pathVars, bindVars, restVars>>

(***************************************************************************)
(* 64-bit unsigned integers.  The values of the generator do not fit the   *)
(* model checker's integers, so a u64 is the function of its 64 bits,      *)
(* bit 0 the least significant.                                            *)
(***************************************************************************)
U64_BITS == 64
U8_MAX == 255

BitIdx == 0 .. (U64_BITS - 1)

\* Bit i of a natural number that the checker's integers hold (below 2^30).
NatBit(n, i) == IF i < 30 THEN (n \div (2 ^ i)) % 2 ELSE 0

\* `n as u64` for a small n (a u8 tag, a literal).
FromNat(n) == [i \in BitIdx |-> NatBit(n, i)]

\* a << k on u64: bits shifted past bit 63 are lost.
Shl(a, k) == [i \in BitIdx |-> IF i >= k THEN a[i - k] ELSE 0]

\* a | b
BitOr(a, b) == [i \in BitIdx |-> IF a[i] = 1 \/ b[i] = 1 THEN 1 ELSE 0]

\* a & b
BitAnd(a, b) == [i \in BitIdx |-> IF a[i] = 1 /\ b[i] = 1 THEN 1 ELSE 0]

\* a < b, unsigned: decided at the highest bit, at or below bit i, where they
\* differ.
RECURSIVE LtFrom(_, _, _)
LtFrom(a, b, i) ==
    IF i < 0 THEN FALSE
    ELSE IF a[i] = b[i] THEN LtFrom(a, b, i - 1)
    ELSE a[i] < b[i]

Lt(a, b) == LtFrom(a, b, U64_BITS - 1)

\* a <= b
Le(a, b) == a = b \/ Lt(a, b)

\* a + 1 with wrap-around, as AtomicU64::fetch_add leaves the counter.
Add1(a) ==
    LET zeros == {i \in BitIdx : a[i] = 0}
    IN  IF zeros = {} THEN [i \in BitIdx |-> 0]
        ELSE LET z == CHOOSE i \in zeros : \A j \in zeros : i <= j
             IN  [i \in BitIdx |-> IF i < z THEN 0 ELSE IF i = z THEN 1 ELSE a[i]]

\* a - 1 with wrap-around.
Sub1(a) ==
    LET ones == {i \in BitIdx : a[i] = 1}
    IN  IF ones = {} THEN [i \in BitIdx |-> 1]
        ELSE LET z == CHOOSE i \in ones : \A j \in ones : i <= j
             IN  [i \in BitIdx |-> IF i < z THEN 1 ELSE IF i = z THEN 0 ELSE a[i]]

RECURSIVE SubN(_, _)
SubN(a, n) == IF n = 0 THEN a ELSE SubN(Sub1(a), n - 1)

\* The number held in bits lo..hi of a (at most 30 bits wide).
RECURSIVE Field(_, _, _)
Field(a, lo, hi) == IF hi < lo THEN 0 ELSE a[lo] + 2 * Field(a, lo + 1, hi)

\* Bits lo..hi of a, kept in place, every other bit cleared.
Masked(a, lo, hi) == [i \in BitIdx |-> IF i >= lo /\ i <= hi THEN a[i] ELSE 0]

U64_MAX == [i \in BitIdx |-> 1]

(***************************************************************************)
(* UniqueInodeGenerator                                                    *)
(***************************************************************************)
\* Width of the payload: the tag is shifted left by it.
INODE_SHIFT == 47
\* Position of the virtual-inode flag.
VIRTUAL_FLAG_BIT == 55

\* const VIRTUAL_INODE_FLAG: u64 = 1 << 55
VIRTUAL_INODE_FLAG == Shl(FromNat(1), VIRTUAL_FLAG_BIT)

\* MAX_HOST_INO = 0x7fff_ffff_ffff
MAX_HOST_INO == [i \in BitIdx |-> IF i < INODE_SHIFT THEN 1 ELSE 0]

\* The outcome of a call: Ok(value) or Err(io::Error).  io::Error::other
\* builds an error of kind Other that carries no OS error code.
Ok(v) == [ok |-> TRUE, val |-> v, kind |-> "none", errno |-> "none"]
ErrOther == [ok |-> FALSE, val |-> FromNat(0), kind |-> "Other", errno |-> "none"]

\* (A variant of the limit test that gives up one tag early.)
TagsExhaustedEarly(nuid) == nuid = U8_MAX - 1
\* The Vacant arm's limit test: no tag is left once next_unique_id is u8::MAX.
TagsExhausted(nuid) == nuid = U8_MAX

\* (A variant of the tag block that does not advance next_unique_id.)
LookupTagNoAdvance(map, nuid, id) ==
    LET pair == <<id.dev, id.mnt>>
    IN  IF pair \in DOMAIN map
        THEN [ok |-> TRUE, unique_id |-> map[pair], map |-> map, nuid |-> nuid]
        ELSE IF nuid = U8_MAX
        THEN [ok |-> FALSE, unique_id |-> 0, map |-> map, nuid |-> nuid]
        ELSE [ok |-> TRUE, unique_id |-> nuid,
              map |-> [p \in DOMAIN map \cup {pair} |->
                          IF p = pair THEN nuid ELSE map[p]],
              nuid |-> nuid]

\* The block computing unique_id: the tag of (id.dev, id.mnt), assigned from
\* next_unique_id on first sight.
LookupTag(map, nuid, id) ==
    LET pair == <<id.dev, id.mnt>>
    IN  IF pair \in DOMAIN map
        THEN [ok |-> TRUE, unique_id |-> map[pair], map |-> map, nuid |-> nuid]
        ELSE IF TagsExhausted(nuid)
        THEN [ok |-> FALSE, unique_id |-> 0, map |-> map, nuid |-> nuid]
        ELSE [ok |-> TRUE, unique_id |-> nuid,
              map |-> [p \in DOMAIN map \cup {pair} |->
                          IF p = pair THEN nuid ELSE map[p]],
              nuid |-> (nuid + 1) % (U8_MAX + 1)]

\* (A variant of the virtual payload that leaves the virtual flag out.)
VirtualPayloadNoFlag(nvi) == nvi
\* The virtual payload: the counter with the virtual flag set.
VirtualPayload(nvi) == BitOr(nvi, VIRTUAL_INODE_FLAG)

\* The virtual counter's limit test.
VirtualExhausted(nvi) == ~Le(nvi, MAX_HOST_INO)

\* (A variant of the inode block that does not advance the virtual counter.)
PickInodeNoAdvance(nvi, id) ==
    IF Le(id.ino, MAX_HOST_INO)
    THEN [ok |-> TRUE, inode |-> id.ino, nvi |-> nvi]
    ELSE IF ~Le(nvi, MAX_HOST_INO)
    THEN [ok |-> FALSE, inode |-> FromNat(0), nvi |-> nvi]
    ELSE [ok |-> TRUE, inode |-> BitOr(nvi, VIRTUAL_INODE_FLAG), nvi |-> nvi]

\* The block computing inode: the host inode when it fits 47 bits, else the
\* next virtual inode.
PickInode(nvi, id) ==
    IF Le(id.ino, MAX_HOST_INO)
    THEN [ok |-> TRUE, inode |-> id.ino, nvi |-> nvi]
    ELSE IF VirtualExhausted(nvi)
    THEN [ok |-> FALSE, inode |-> FromNat(0), nvi |-> nvi]
    ELSE [ok |-> TRUE, inode |-> VirtualPayload(nvi), nvi |-> Add1(nvi)]

\* (A variant of the composition that shifts the tag one bit short.)
ComposeShort(unique_id, inode) == BitOr(Shl(FromNat(unique_id), INODE_SHIFT - 1), inode)
\* ((unique_id as u64) << 47) | inode
Compose(unique_id, inode) == BitOr(Shl(FromNat(unique_id), INODE_SHIFT), inode)

\* get_unique_inode: the result and the generator it leaves.
get_unique_inode(map, nuid, nvi, id) ==
    LET t == LookupTag(map, nuid, id)
    IN  IF ~t.ok
        THEN [res |-> ErrOther, map |-> map, nuid |-> nuid, nvi |-> nvi]
        ELSE LET p == PickInode(nvi, id)
             IN  IF ~p.ok
                 THEN [res |-> ErrOther, map |-> t.map, nuid |-> t.nuid, nvi |-> nvi]
                 ELSE [res |-> Ok(Compose(t.unique_id, p.inode)),
                       map |-> t.map, nuid |-> t.nuid, nvi |-> p.nvi]

\* VFS_MAX_INO: the largest 56-bit value.
VFS_MAX_INO == [i \in BitIdx |-> IF i <= VIRTUAL_FLAG_BIT THEN 1 ELSE 0]

\* (A variant of the tag extraction that keeps four bits only.)
DecodeTagNarrow(inode) == Field(inode, INODE_SHIFT, INODE_SHIFT + 3)
\* (inode >> 47) as u8
DecodeTag(inode) == Field(inode, INODE_SHIFT, INODE_SHIFT + 7)

\* The order of the BTreeMap's keys: DevMntIDPair derives Ord.
PairLe(p, q) == p[1] < q[1] \/ (p[1] = q[1] /\ p[2] <= q[2])

InvalidInput == [ok |-> FALSE, kind |-> "InvalidInput"]

\* decode_unique_inode: the first key, in the map's order, whose tag is the
\* one held by the value.
decode_unique_inode(map, inode) ==
    IF Lt(VFS_MAX_INO, inode) THEN InvalidInput
    ELSE LET dev_mntid == DecodeTag(inode)
             keys == {p \in DOMAIN map : map[p] = dev_mntid}
         IN  IF dev_mntid = U8_MAX THEN InvalidInput
             ELSE IF keys = {} THEN InvalidInput
             ELSE LET k == CHOOSE p \in keys : \A q \in keys : PairLe(p, q)
                  IN  [ok |-> TRUE,
                       id |-> [dev |-> k[1], mnt |-> k[2],
                               ino |-> BitAnd(inode, MAX_HOST_INO)]]

(***************************************************************************)
(* Bounds and inputs of the generator's specification                      *)
(***************************************************************************)
\* Calls observed per behaviour.
MaxCalls == 3
\* Tags still free in the generator states that start near the tag limit.
TagHeadroom == 1
\* Virtual inodes still free in the states that start near the counter limit.
VirtHeadroom == 1

\* The (dev, mnt) pairs of the observed calls.
Pairs == {<<0, 0>>, <<0, 1>>, <<1, 0>>}

\* The host inode numbers of the observed calls: small ones, the largest
\* one that fits, the first that does not, and u64::MAX.
Inos == {FromNat(1), MAX_HOST_INO, Add1(MAX_HOST_INO), U64_MAX}

InodeIds == {[dev |-> p[1], mnt |-> p[2], ino |-> i] : p \in Pairs, i \in Inos}

\* The map after k calls naming k distinct pairs (7, 1) .. (7, k) of another
\* device: tags 1..k.
FilledMap(k) == [p \in {<<7, m>> : m \in 1 .. k} |-> p[2]]

NoCall == [made |-> FALSE]
NoDecode == [made |-> FALSE]

\* UniqueInodeGenerator::new(), or a generator that earlier calls brought
\* near the tag limit, near the virtual counter's limit, or both.
InitGen ==
    /\ \E k \in {0, U8_MAX - 1 - TagHeadroom} :
          /\ dev_mntid_map = FilledMap(k)
          /\ next_unique_id = k + 1
    /\ next_virtual_inode \in {FromNat(1), SubN(Add1(MAX_HOST_INO), VirtHeadroom)}
    /\ issued = {}
    /\ last = NoCall
    /\ ncalls = 0
    /\ decoded = NoDecode

FreshGen ==
    /\ dev_mntid_map = FilledMap(0)
    /\ next_unique_id = 1
    /\ next_virtual_inode = FromNat(1)
    /\ issued = {}
    /\ last = NoCall
    /\ ncalls = 0
    /\ decoded = NoDecode

\* One call of get_unique_inode.
GetUniqueInode ==
    /\ ncalls < MaxCalls
    /\ \E id \in InodeIds :
          \E r \in {get_unique_inode(dev_mntid_map, next_unique_id,
                                    next_virtual_inode, id)} :
              /\ dev_mntid_map' = r.map
              /\ next_unique_id' = r.nuid
              /\ next_virtual_inode' = r.nvi
              /\ issued' = IF r.res.ok
                           THEN issued \cup {[id |-> id, val |-> r.res.val]}
                           ELSE issued
              /\ last' = [made |-> TRUE, id |-> id, res |-> r.res,
                          seen |-> <<id.dev, id.mnt>> \in DOMAIN dev_mntid_map,
                          ntags |-> Cardinality(DOMAIN dev_mntid_map),
                          virt_before |-> next_virtual_inode,
                          virt_after |-> r.nvi]
              /\ ncalls' = ncalls + 1
              /\ decoded' = NoDecode
    /\ UNCHANGED <<pathVars, bindVars, restVars>>

\* decode_unique_inode applied to the value the latest call returned.
DecodeUniqueInode ==
    /\ last.made /\ last.res.ok
    /\ ~decoded.made
    /\ decoded' = [made |-> TRUE, inode |-> last.res.val,
                   res |-> decode_unique_inode(dev_mntid_map, last.res.val)]
    /\ UNCHANGED <<dev_mntid_map, next_unique_id, next_virtual_inode, issued,
                   last, ncalls>>
    /\ UNCHANGED <<pathVars, bindVars, restVars>>

(***************************************************************************)
(* get_unique_inode called from several threads on one generator.  The     *)
(* block computing unique_id holds the map's lock from the lookup to the   *)
(* insertion, so it is one step; the load of next_virtual_inode and its    *)
(* fetch_add are two atomic operations, so they are two steps.             *)
(***************************************************************************)
\* Threads calling get_unique_inode at the same time, one call each.
NumThreads == 2
Threads == 1 .. NumThreads

\* The InodeIds of the concurrent calls: one host inode and one that does
\* not fit 47 bits, for each pair.
ConcIds == {id \in InodeIds : id.ino \in {FromNat(1), Add1(MAX_HOST_INO)}}

Idle == [pc |-> "idle"]
Done(id, res) == [pc |-> "done", id |-> id, res |-> res]

\* The generator of InitGen, and no thread inside a call.
InitThreads ==
    /\ InitGen
    /\ threads = [t \in Threads |-> Idle]

\* A thread enters get_unique_inode and runs the block computing unique_id
\* under the lock; a host inode is composed at once.
ThreadTagBlock ==
    /\ \E t \in Threads : \E id \in ConcIds :
          /\ threads[t].pc = "idle"
          /\ LET r == LookupTag(dev_mntid_map, next_unique_id, id)
             IN  /\ dev_mntid_map' = r.map
                 /\ next_unique_id' = r.nuid
                 /\ threads' = [threads EXCEPT ![t] =
                        IF ~r.ok THEN Done(id, ErrOther)
                        ELSE IF Le(id.ino, MAX_HOST_INO)
                        THEN Done(id, Ok(Compose(r.unique_id, id.ino)))
                        ELSE [pc |-> "load", id |-> id, unique_id |-> r.unique_id]]
    /\ UNCHANGED <<next_virtual_inode, issued, last, ncalls, decoded>>
    /\ UNCHANGED <<pathVars, bindVars, parseVars, fhVars, cmpVars>>

\* self.next_virtual_inode.load(Relaxed) > MAX_HOST_INO
ThreadLoadVirtual ==
    /\ \E t \in Threads :
          /\ threads[t].pc = "load"
          /\ threads' = [threads EXCEPT ![t] =
                 IF VirtualExhausted(next_virtual_inode)
                 THEN Done(@.id, ErrOther)
                 ELSE [@ EXCEPT !.pc = "fetch_add"]]
    /\ UNCHANGED genVars
    /\ UNCHANGED <<pathVars, bindVars, parseVars, fhVars, cmpVars>>

\* self.next_virtual_inode.fetch_add(1, Relaxed) | VIRTUAL_INODE_FLAG, and
\* the composition of the result.
ThreadFetchAddVirtual ==
    /\ \E t \in Threads :
          /\ threads[t].pc = "fetch_add"
          /\ next_virtual_inode' = Add1(next_virtual_inode)
          /\ threads' = [threads EXCEPT ![t] =
                 [pc |-> "done", id |-> @.id,
                  fetched |-> next_virtual_inode,
                  res |-> Ok(Compose(@.unique_id,
                                     BitOr(next_virtual_inode, VIRTUAL_INODE_FLAG)))]]
    /\ UNCHANGED <<dev_mntid_map, next_unique_id, issued, last, ncalls, decoded>>
    /\ UNCHANGED <<pathVars, bindVars, parseVars, fhVars, cmpVars>>

(***************************************************************************)
(* validate_path_component                                                 *)
(* A name is a CStr: the sequence of its bytes, none of them NUL.          *)
(***************************************************************************)
\* pub const SLASH_ASCII: u8 = 47
SLASH_ASCII == 47
\* b".\0" and b"..\0": '.' is byte 46, and a CStr ends with the byte 0.
CURRENT_DIR_CSTR == <<46, 0>>
PARENT_DIR_CSTR == <<46, 46, 0>>

\* CStr::to_bytes_with_nul
to_bytes_with_nul(n) == Append(n, 0)

\* <[u8]>::contains
contains(bytes, b) == \E i \in 1 .. Len(bytes) : bytes[i] = b

\* <[u8]>::starts_with
starts_with(bytes, prefix) ==
    /\ Len(prefix) <= Len(bytes)
    /\ SubSeq(bytes, 1, Len(prefix)) = prefix

\* (A variant of is_dot_or_dotdot whose markers lack the terminating NUL.)
is_dot_or_dotdot_no_nul(n) ==
    \/ starts_with(to_bytes_with_nul(n), <<46>>)
    \/ starts_with(to_bytes_with_nul(n), <<46, 46>>)
\* is_dot_or_dotdot
is_dot_or_dotdot(n) ==
    \/ starts_with(to_bytes_with_nul(n), CURRENT_DIR_CSTR)
    \/ starts_with(to_bytes_with_nul(n), PARENT_DIR_CSTR)

is_safe_path_component(n) ==
    IF contains(to_bytes_with_nul(n), SLASH_ASCII) THEN FALSE
    ELSE ~is_dot_or_dotdot(n)

\* Ok(()) or Err(io::Error::from_raw_os_error(libc::EINVAL))
validate_path_component(n) ==
    IF is_safe_path_component(n) THEN "Ok" ELSE "EINVAL"

\* Longest name tried.
MaxNameLen == 4

\* The bytes names are made of: '.', '/' and 'a'.
NameBytes == {46, SLASH_ASCII, 97}

RECURSIVE SeqsUpTo(_, _)
SeqsUpTo(S, n) ==
    IF n = 0 THEN {<<>>}
    ELSE LET shorter == SeqsUpTo(S, n - 1)
         IN  shorter \cup {Append(q, b) : q \in shorter, b \in S}

Names == SeqsUpTo(NameBytes, MaxNameLen)

InitPath ==
    /\ name = <<>>
    /\ vres = "none"

\* One call of validate_path_component.
ValidatePathComponent ==
    /\ \E n \in Names :
          /\ name' = n
          /\ vres' = validate_path_component(n)
    /\ UNCHANGED <<genVars, bindVars, restVars>>

(***************************************************************************)
(* Strings and paths                                                       *)
(* A string is the sequence of its pieces: the separators ":" and "/", and *)
(* whole names ("d", "..", "ro").  The inputs never put two names side by  *)
(* side, so every name is one path component.  A path (std::path::Path)    *)
(* is what Path::components yields: whether it has a root, and its         *)
(* components, ".." kept as it is written.                                 *)
(***************************************************************************)
\* str::split(sep): the fields between the separators, empty fields kept.
RECURSIVE split(_, _)
split(s, sep) ==
    IF \A i \in 1 .. Len(s) : s[i] # sep THEN <<s>>
    ELSE LET k == CHOOSE i \in 1 .. Len(s) :
                      s[i] = sep /\ \A j \in 1 .. (i - 1) : s[j] # sep
         IN  <<SubSeq(s, 1, k - 1)>> \o split(SubSeq(s, k + 1, Len(s)), sep)

\* PathBuf::from(s)
IsSlash(c) == c = "/"
NotSlash(c) == ~IsSlash(c)
path_from(s) ==
    [abs |-> Len(s) > 0 /\ IsSlash(s[1]), comps |-> SelectSeq(s, NotSlash)]

\* (A variant of Path::is_relative that takes every path for absolute.)
is_relative_never(p) == FALSE
\* Path::is_relative
is_relative(p) == ~p.abs

\* Path::join: an absolute argument replaces the base.
join(base, p) ==
    IF p.abs THEN p ELSE [abs |-> base.abs, comps |-> base.comps \o p.comps]

IsPrefix(a, b) == Len(a) <= Len(b) /\ SubSeq(b, 1, Len(a)) = a

\* Path::starts_with: whole components are compared, as written.
path_starts_with(p, base) == p.abs = base.abs /\ IsPrefix(base.comps, p.comps)

\* p.strip_prefix("/").unwrap_or(p)
strip_root(p) == IF p.abs THEN [abs |-> FALSE, comps |-> p.comps] ELSE p

\* Path::parent (None for a path with no component)
has_parent(p) == Len(p.comps) > 0
parent(p) == [abs |-> p.abs, comps |-> SubSeq(p.comps, 1, Len(p.comps) - 1)]

(***************************************************************************)
(* The host: its file tree, its symlinks and its mount table.              *)
(* A location is a canonical absolute path: the sequence of names from     *)
(* the root.  fs maps the existing locations to "dir" or "file"; sl is     *)
(* the set of locations that hold a symlink, each leading to /etc.         *)
(***************************************************************************)
EtcLoc == <<"etc">>

ParentLoc(loc) == IF loc = <<>> THEN <<>> ELSE SubSeq(loc, 1, Len(loc) - 1)

\* Path resolution as the kernel does it, component by component from the
\* root (the working directory of the process is the root).
RECURSIVE Walk(_, _, _, _, _)
Walk(f, sl, cur, comps, i) ==
    IF cur \notin DOMAIN f
    THEN [err |-> "NotFound", loc |-> cur, final |-> i > Len(comps)]
    ELSE IF f[cur] = "loop"
    THEN [err |-> "FilesystemLoop", loc |-> cur, final |-> i > Len(comps)]
    ELSE IF i > Len(comps) THEN [err |-> "none", loc |-> cur, final |-> TRUE]
    ELSE IF f[cur] # "dir"
    THEN [err |-> "NotADirectory", loc |-> cur, final |-> FALSE]
    ELSE IF comps[i] = ".." THEN Walk(f, sl, ParentLoc(cur), comps, i + 1)
    ELSE LET nxt == Append(cur, comps[i])
         IN  Walk(f, sl, IF nxt \in sl THEN EtcLoc ELSE nxt, comps, i + 1)

resolve(f, sl, p) == Walk(f, sl, <<>>, p.comps, 1)

\* Path::exists
exists(f, sl, p) == resolve(f, sl, p).err = "none"

\* fs::metadata(p).is_dir(), for a path that exists
is_dir(f, sl, p) == f[resolve(f, sl, p).loc] = "dir"

\* fs::metadata(p).is_file(), for a path that exists
is_file(f, sl, p) == f[resolve(f, sl, p).loc] = "file"

\* mkdir of one prefix of a path, as create_dir_all goes through them.
RECURSIVE MkdirPrefixes(_, _, _, _)
MkdirPrefixes(f, sl, p, k) ==
    IF k > Len(p.comps) THEN [ok |-> TRUE, fs |-> f]
    ELSE LET r == resolve(f, sl, [abs |-> p.abs, comps |-> SubSeq(p.comps, 1, k)])
         IN  IF r.err = "none"
             THEN IF f[r.loc] = "dir" THEN MkdirPrefixes(f, sl, p, k + 1)
                  ELSE [ok |-> FALSE, fs |-> f]
             ELSE IF r.err = "NotFound" /\ r.final
             THEN MkdirPrefixes([l \in DOMAIN f \cup {r.loc} |->
                                    IF l = r.loc THEN "dir" ELSE f[l]],
                                sl, p, k + 1)
             ELSE [ok |-> FALSE, fs |-> f]

\* fs::create_dir_all
create_dir_all(f, sl, p) == MkdirPrefixes(f, sl, p, 1)

\* fs::File::create
file_create(f, sl, p) ==
    LET r == resolve(f, sl, p)
    IN  IF r.err = "none"
        THEN [ok |-> f[r.loc] = "file", fs |-> f]
        ELSE IF r.err = "NotFound" /\ r.final /\ Len(p.comps) > 0
        THEN [ok |-> TRUE,
              fs |-> [l \in DOMAIN f \cup {r.loc} |->
                         IF l = r.loc THEN "file" ELSE f[l]]]
        ELSE [ok |-> FALSE, fs |-> f]

\* One system call as the host saw it: the path handed over, the location
\* it resolved to at that moment (Unresolved if none), the result, and the
\* position, in its manager's list, of the record it was issued for.
Unresolved == <<"?">>
Sys(call, p, loc, res, rec) ==
    [call |-> call, path |-> p, loc |-> loc, res |-> res, rec |-> rec]

IsMounted(mt, loc) == \E i \in 1 .. Len(mt) : mt[i] = loc

\* The mount table without the topmost mount at loc.
Detach(mt, loc) ==
    LET k == CHOOSE i \in 1 .. Len(mt) :
                 mt[i] = loc /\ \A j \in (i + 1) .. Len(mt) : mt[j] # loc
    IN  SubSeq(mt, 1, k - 1) \o SubSeq(mt, k + 1, Len(mt))

\* mount(2) with MS_BIND: fails when the target does not resolve, when one
\* of source and target is a directory and the other is not, or when the
\* host refuses (permit = FALSE); else the mount is on the resolved target.
\* w is the host during a handler: [fs, mtab, calls].
sys_mount(w, sl, call, source, p, permit) ==
    LET r == resolve(w.fs, sl, p)
    IN  IF r.err # "none"
        THEN [ok |-> FALSE,
              w |-> [w EXCEPT !.calls = Append(@, Sys(call, p, Unresolved, "ENOENT", 0))]]
        ELSE IF is_dir(w.fs, sl, source) # (w.fs[r.loc] = "dir")
        THEN [ok |-> FALSE,
              w |-> [w EXCEPT !.calls = Append(@, Sys(call, p, r.loc, "ENOTDIR", 0))]]
        ELSE IF ~permit
        THEN [ok |-> FALSE,
              w |-> [w EXCEPT !.calls = Append(@, Sys(call, p, r.loc, "EPERM", 0))]]
        ELSE [ok |-> TRUE,
              w |-> [w EXCEPT !.calls = Append(@, Sys(call, p, r.loc, "ok", 0)),
                              !.mtab = Append(@, r.loc)]]

\* The same with MS_REMOUNT: the mount table keeps its entries.
sys_remount(w, sl, call, p, permit) ==
    LET r == resolve(w.fs, sl, p)
        res == IF r.err # "none" THEN "ENOENT"
               ELSE IF ~IsMounted(w.mtab, r.loc) THEN "EINVAL"
               ELSE IF permit THEN "ok" ELSE "EPERM"
    IN  [ok |-> res = "ok",
         w |-> [w EXCEPT !.calls = Append(@, Sys(call, p,
                     IF r.err = "none" THEN r.loc ELSE Unresolved, res, 0))]]

\* umount(2) / umount2(2): ENOENT when the target does not resolve, EINVAL
\* when nothing is mounted there, else what the host answers (answer).
sys_umount(w, sl, call, p, answer, rec) ==
    LET r == resolve(w.fs, sl, p)
        res == IF r.err # "none" THEN "ENOENT"
               ELSE IF ~IsMounted(w.mtab, r.loc) THEN "EINVAL"
               ELSE answer
    IN  [res |-> res,
         w |-> [w EXCEPT !.calls = Append(@, Sys(call, p,
                     IF r.err = "none" THEN r.loc ELSE Unresolved, res, rec)),
                         !.mtab = IF res = "ok" THEN Detach(@, r.loc) ELSE @]]

(***************************************************************************)
(* util/bind.rs: BindMount and BindManager                                 *)
(***************************************************************************)
\* What the host answers to the system calls made for one spec or one
\* record.  For a mount: "ok", "bind_fails" or "remount_fails".  For an
\* unmount: the answers of the plain and of the detach unmount, when the
\* target resolves and is mounted: not busy, busy, or refused altogether.
MountAnswers == {"ok", "bind_fails", "remount_fails"}
UmountAnswers ==
    { [plain |-> "ok", detach |-> "ok"],
      [plain |-> "EBUSY", detach |-> "ok"],
      [plain |-> "EBUSY", detach |-> "EPERM"],
      [plain |-> "EPERM", detach |-> "EPERM"] }

\* The target-preparation part of BindMount::new: create a missing target
\* with the source's kind, or check the kind of an existing one.
PrepareTarget(f, sl, source, target) ==
    IF ~exists(f, sl, target)
    THEN IF is_dir(f, sl, source) THEN create_dir_all(f, sl, target)
         ELSE LET d == IF has_parent(target)
                       THEN create_dir_all(f, sl, parent(target))
                       ELSE [ok |-> TRUE, fs |-> f]
              IN  IF ~d.ok THEN d ELSE file_create(d.fs, sl, target)
    ELSE [ok |-> is_dir(f, sl, source) = is_dir(f, sl, target), fs |-> f]

\* (A variant of BindMount::new that remounts read-only whatever the spec.)
BindMount_new_always_ro(w, sl, source, target, read_only, answer) ==
    IF ~exists(w.fs, sl, source) THEN [ok |-> FALSE, w |-> w]
    ELSE LET t == PrepareTarget(w.fs, sl, source, target)
         IN  IF ~t.ok THEN [ok |-> FALSE, w |-> [w EXCEPT !.fs = t.fs]]
             ELSE LET m == sys_mount([w EXCEPT !.fs = t.fs], sl, "mount(MS_BIND)",
                                     source, target, answer # "bind_fails")
                  IN  IF ~m.ok THEN m
                      ELSE sys_remount(m.w, sl, "mount(MS_BIND|MS_REMOUNT|MS_RDONLY)",
                                       target, answer # "remount_fails")

\* BindMount::new(source, target, read_only)
BindMount_new(w, sl, source, target, read_only, answer) ==
    IF ~exists(w.fs, sl, source) THEN [ok |-> FALSE, w |-> w]
    ELSE LET t == PrepareTarget(w.fs, sl, source, target)
         IN  IF ~t.ok THEN [ok |-> FALSE, w |-> [w EXCEPT !.fs = t.fs]]
             ELSE LET m == sys_mount([w EXCEPT !.fs = t.fs], sl, "mount(MS_BIND)",
                                     source, target, answer # "bind_fails")
                  IN  IF ~m.ok \/ ~read_only THEN m
                      ELSE sys_remount(m.w, sl, "mount(MS_BIND|MS_REMOUNT|MS_RDONLY)",
                                       target, answer # "remount_fails")

\* Drop for BindMount: a plain unmount, and a detach unmount if it failed.
BindMount_drop(w, sl, target, answer, rec) ==
    LET u == sys_umount(w, sl, "umount", target, answer.plain, rec)
    IN  IF u.res = "ok" THEN u.w
        ELSE sys_umount(u.w, sl, "umount2(MNT_DETACH)", target, answer.detach, rec).w

\* The containment test of BindManager::mount_all.
TargetEscapes(target, base_dir) == ~path_starts_with(target, base_dir)

\* BindManager::mount_all(base_dir, bind_args), from the i-th argument on.
\* st is [w, mounts, res]; answers[i] is the host's answer for the i-th.
RECURSIVE BindManager_mount_from(_, _, _, _, _, _)
BindManager_mount_from(st, sl, base_dir, bind_args, answers, i) ==
    IF i > Len(bind_args) THEN [st EXCEPT !.res = "Ok"]
    ELSE
    LET parts == split(bind_args[i], ":")
    IN  IF Len(parts) < 2 \/ Len(parts) > 3
        THEN [st EXCEPT !.res = "Err(format)"]
        ELSE IF Len(parts) = 3 /\ parts[3] # <<"ro">>
        THEN [st EXCEPT !.res = "Err(option)"]
        ELSE
        LET source == path_from(parts[2])
            read_only == Len(parts) = 3
            target == join(base_dir, path_from(parts[1]))
        IN  IF TargetEscapes(target, base_dir)
            THEN [st EXCEPT !.res = "Err(escape)"]
            ELSE
            LET b == BindMount_new(st.w, sl, source, target, read_only, answers[i])
            IN  IF ~b.ok THEN [st EXCEPT !.w = b.w, !.res = "Err(mount)"]
                ELSE BindManager_mount_from(
                         [st EXCEPT !.w = b.w, !.mounts = Append(@, target)],
                         sl, base_dir, bind_args, answers, i + 1)

BindManager_mount_all(st, sl, base_dir, bind_args, answers) ==
    BindManager_mount_from(st, sl, base_dir, bind_args, answers, 1)

\* The order in which a dropped Vec drops its n elements: first to last.
VecDropOrder(n) == [k \in 1 .. n |-> k]

\* Dropping a BindManager drops its Vec<BindMount>, element by element.
RECURSIVE BindManager_drop_from(_, _, _, _, _)
BindManager_drop_from(w, sl, mounts, answers, k) ==
    IF k > Len(mounts) THEN w
    ELSE LET rec == VecDropOrder(Len(mounts))[k]
         IN  BindManager_drop_from(
                 BindMount_drop(w, sl, mounts[rec], answers[rec], rec),
                 sl, mounts, answers, k + 1)

BindManager_drop(w, sl, mounts, answers) ==
    BindManager_drop_from(w, sl, mounts, answers, 1)

(***************************************************************************)
(* util/bind_mount.rs: BindMount and BindMountManager                      *)
(***************************************************************************)
\* BindMountManager::do_mount
do_mount(w, sl, source, target, answer) ==
    sys_mount(w, sl, "mount(MS_BIND|MS_REC)", source, target, answer # "bind_fails")

\* The target of one spec: the mountpoint joined with the spec's target,
\* its leading "/" stripped.
TargetPath(mountpoint, bind) == join(mountpoint, strip_root(bind.target))

\* The loop body of BindMountManager::mount_all up to the mount: stat the
\* source, create a missing target.
PrepareMountTarget(f, sl, source, target_path) ==
    IF exists(f, sl, target_path) THEN [ok |-> TRUE, fs |-> f]
    ELSE IF is_file(f, sl, source)
    THEN LET d == IF has_parent(target_path)
                  THEN create_dir_all(f, sl, parent(target_path))
                  ELSE [ok |-> TRUE, fs |-> f]
         IN  IF ~d.ok THEN d ELSE file_create(d.fs, sl, target_path)
    ELSE create_dir_all(f, sl, target_path)

\* BindMountManager::mount_all(bind_specs), from the i-th spec on.
RECURSIVE BindMountManager_mount_from(_, _, _, _, _, _)
BindMountManager_mount_from(st, sl, mountpoint, bind_specs, answers, i) ==
    IF i > Len(bind_specs) THEN [st EXCEPT !.res = "Ok"]
    ELSE
    LET bind == bind_specs[i]
        target_path == TargetPath(mountpoint, bind)
    IN  IF ~exists(st.w.fs, sl, bind.source)
        THEN [st EXCEPT !.res = "Err(source)"]
        ELSE
        LET t == PrepareMountTarget(st.w.fs, sl, bind.source, target_path)
        IN  IF ~t.ok THEN [st EXCEPT !.w.fs = t.fs, !.res = "Err(create)"]
            ELSE
            LET m == do_mount([st.w EXCEPT !.fs = t.fs], sl, bind.source, target_path,
                              answers[i])
            IN  IF ~m.ok THEN [st EXCEPT !.w = m.w, !.res = "Err(mount)"]
                ELSE BindMountManager_mount_from(
                         [st EXCEPT !.w = m.w,
                                    !.mounts = Append(@, [target |-> target_path,
                                                          mounted |-> TRUE])],
                         sl, mountpoint, bind_specs, answers, i + 1)

\* (A variant of mount_all that forgets the records of a call that failed.)
mount_all_or_nothing(st, sl, mountpoint, bind_specs, answers) ==
    LET e == BindMountManager_mount_from(st, sl, mountpoint, bind_specs, answers, 1)
    IN  IF e.res = "Ok" THEN e ELSE [e EXCEPT !.mounts = st.mounts]
BindMountManager_mount_all(st, sl, mountpoint, bind_specs, answers) ==
    BindMountManager_mount_from(st, sl, mountpoint, bind_specs, answers, 1)

\* BindMountManager::do_unmount: Ok (TRUE) or Err (FALSE), and the host.
do_unmount(w, sl, target, answer, rec) ==
    LET u == sys_umount(w, sl, "umount", target, answer.plain, rec)
    IN  IF u.res \in {"ok", "ENOENT", "EINVAL"} THEN [ok |-> TRUE, w |-> u.w]
        ELSE IF u.res = "EBUSY"
        THEN LET l == sys_umount(u.w, sl, "umount2(MNT_DETACH)", target,
                                 answer.detach, rec)
             IN  [ok |-> l.res = "ok", w |-> l.w]
        ELSE [ok |-> FALSE, w |-> u.w]

\* BindMountManager::validate_mount_target
validate_mount_target(f, sl, target) ==
    LET r == resolve(f, sl, target)
    IN  IF r.err = "none" THEN [kind |-> "Valid", canonical |-> r.loc]
        ELSE IF r.err = "NotFound"
        THEN [kind |-> "AlreadyUnmounted", canonical |-> Unresolved]
        ELSE [kind |-> "ValidationFailed", canonical |-> Unresolved]

\* The check of unmount_all on a canonical target.
UnderMountpoint(canonical_target, canonical_mountpoint) ==
    IsPrefix(canonical_mountpoint, canonical_target)

\* (A variant of the loop that gives up at the first target that fails.)
RECURSIVE unmount_loop_stopping(_, _, _, _)
unmount_loop_stopping(st, sl, canonical_mountpoint, answers) ==
    IF Len(st.mounts) = 0 THEN st
    ELSE
    LET rec == Len(st.mounts)
        mount == st.mounts[rec]
        popped == [st EXCEPT !.mounts = SubSeq(@, 1, rec - 1)]
        v == validate_mount_target(st.w.fs, sl, mount.target)
    IN  IF ~mount.mounted \/ v.kind = "AlreadyUnmounted"
        THEN unmount_loop_stopping(popped, sl, canonical_mountpoint, answers)
        ELSE IF v.kind = "ValidationFailed"
        THEN [popped EXCEPT !.errors = @ + 1]
        ELSE IF ~UnderMountpoint(v.canonical, canonical_mountpoint)
        THEN unmount_loop_stopping(popped, sl, canonical_mountpoint, answers)
        ELSE LET u == do_unmount(st.w, sl, mount.target, answers[rec], rec)
             IN  IF u.ok
                 THEN unmount_loop_stopping([popped EXCEPT !.w = u.w], sl,
                                            canonical_mountpoint, answers)
                 ELSE [popped EXCEPT !.w = u.w, !.errors = @ + 1]

\* The loop of BindMountManager::unmount_all: pop the records, validate
\* and unmount each.  st is [w, mounts, errors].
RECURSIVE unmount_loop(_, _, _, _)
unmount_loop(st, sl, canonical_mountpoint, answers) ==
    IF Len(st.mounts) = 0 THEN st
    ELSE
    LET rec == Len(st.mounts)
        mount == st.mounts[rec]
        popped == [st EXCEPT !.mounts = SubSeq(@, 1, rec - 1)]
        v == validate_mount_target(st.w.fs, sl, mount.target)
    IN  IF ~mount.mounted \/ v.kind = "AlreadyUnmounted"
        THEN unmount_loop(popped, sl, canonical_mountpoint, answers)
        ELSE IF v.kind = "ValidationFailed"
        THEN unmount_loop([popped EXCEPT !.errors = @ + 1], sl,
                          canonical_mountpoint, answers)
        ELSE IF ~UnderMountpoint(v.canonical, canonical_mountpoint)
        THEN unmount_loop(popped, sl, canonical_mountpoint, answers)
        ELSE LET u == do_unmount(st.w, sl, mount.target, answers[rec], rec)
             IN  unmount_loop([popped EXCEPT !.w = u.w,
                                             !.errors = IF u.ok THEN @ ELSE @ + 1],
                              sl, canonical_mountpoint, answers)

\* (A variant of unmount_all that forgets its records when the mountpoint
\* cannot be canonicalised.)
unmount_all_clearing(w, sl, mounts, mountpoint, answers) ==
    LET c == resolve(w.fs, sl, mountpoint)
    IN  IF c.err # "none"
        THEN [w |-> w, mounts |-> <<>>, res |-> "Err(mountpoint)"]
        ELSE LET e == unmount_loop([w |-> w, mounts |-> mounts, errors |-> 0],
                                   sl, c.loc, answers)
             IN  [w |-> e.w, mounts |-> e.mounts,
                  res |-> IF e.errors > 0 THEN "Err(unmount)" ELSE "Ok"]

\* (A variant of unmount_all that keeps its records when an unmount failed.)
unmount_all_keeping_failed(w, sl, mounts, mountpoint, answers) ==
    LET c == resolve(w.fs, sl, mountpoint)
    IN  IF c.err # "none"
        THEN [w |-> w, mounts |-> mounts, res |-> "Err(mountpoint)"]
        ELSE LET e == unmount_loop([w |-> w, mounts |-> mounts, errors |-> 0],
                                   sl, c.loc, answers)
             IN  [w |-> e.w, mounts |-> IF e.errors > 0 THEN mounts ELSE e.mounts,
                  res |-> IF e.errors > 0 THEN "Err(unmount)" ELSE "Ok"]
\* BindMountManager::unmount_all: [w, mounts, res]
BindMountManager_unmount_all(w, sl, mounts, mountpoint, answers) ==
    LET c == resolve(w.fs, sl, mountpoint)
    IN  IF c.err # "none"
        THEN [w |-> w, mounts |-> mounts, res |-> "Err(mountpoint)"]
        ELSE LET e == unmount_loop([w |-> w, mounts |-> mounts, errors |-> 0],
                                   sl, c.loc, answers)
             IN  [w |-> e.w, mounts |-> e.mounts,
                  res |-> IF e.errors > 0 THEN "Err(unmount)" ELSE "Ok"]

\* Drop for BindMountManager: pop the records and unmount each, whatever
\* do_unmount returns.
RECURSIVE BindMountManager_drop(_, _, _, _)
BindMountManager_drop(w, sl, mounts, answers) ==
    IF Len(mounts) = 0 THEN w
    ELSE LET rec == Len(mounts)
             mount == mounts[rec]
             rest == SubSeq(mounts, 1, rec - 1)
         IN  IF ~mount.mounted THEN BindMountManager_drop(w, sl, rest, answers)
             ELSE BindMountManager_drop(
                      do_unmount(w, sl, mount.target, answers[rec], rec).w,
                      sl, rest, answers)

(***************************************************************************)
(* Bounds and inputs of the bind managers' specification                   *)
(***************************************************************************)
\* Mounts the host holds at a time; a mount_all whose specs could bring the
\* mount table beyond it is not tried.
MaxMounts == 2

\* The base directory of the BindManager calls and the mountpoint of the
\* BindMountManager: /mnt.
BaseDir == path_from(<<"/", "mnt">>)

\* The host before any call: /mnt, /etc, the directory /src, the file /srcf.
Fs0 == [l \in {<<>>, <<"mnt">>, <<"etc">>, <<"src">>, <<"srcf">>} |->
           IF l = <<"srcf">> THEN "file" ELSE "dir"]

\* The arguments of BindManager::mount_all, target:source[:ro].
BindArgs ==
    { <<"d", ":", "/", "src">>,
      <<"f", ":", "/", "srcf", ":", "ro">>,
      <<"..", "/", "etc", ":", "/", "src">>,
      <<"/", "etc", ":", "/", "src">>,
      <<"d", ":", "/", "none">>,
      <<"d", ":", "/", "srcf">> }

\* The specs of BindMountManager::mount_all.
BindSpecs ==
    { [source |-> path_from(<<"/", "src">>), target |-> path_from(<<"/", "d">>)],
      [source |-> path_from(<<"/", "srcf">>), target |-> path_from(<<"/", "d">>)],
      [source |-> path_from(<<"/", "src">>), target |-> path_from(<<"..", "/", "etc">>)],
      [source |-> path_from(<<"/", "none">>), target |-> path_from(<<"/", "d">>)] }

\* The non-empty lists of at most n elements of S.
ListsUpTo(S, n) == SeqsUpTo(S, n) \ {<<>>}

\* The host's answers to the mounts of n specs: mount_all stops at the
\* first failure, so at most one answer is a failure.
MountAnswerSeqs(n) ==
    {[i \in 1 .. n |-> "ok"]} \cup
    {[i \in 1 .. n |-> IF i = k THEN a ELSE "ok"] :
        k \in 1 .. n, a \in MountAnswers \ {"ok"}}

NoOp == [op |-> "none", mgr |-> "none", args |-> <<>>, recorded |-> <<>>,
         calls |-> <<>>, res |-> "none"]

InitBind ==
    /\ fs = Fs0
    /\ symlinks = {}
    /\ mtab = <<>>
    /\ bm_mounts = <<>>
    /\ bm_live = TRUE
    /\ bmm_mounts = <<>>
    /\ bmm_live = TRUE
    /\ bind_last = NoOp

World == [fs |-> fs, mtab |-> mtab, calls |-> <<>>]

\* BindManager::mount_all(base_dir, bind_args)
BM_MountAll ==
    /\ bm_live
    /\ \E bind_args \in ListsUpTo(BindArgs, MaxMounts - Len(mtab)) :
       \E answers \in MountAnswerSeqs(Len(bind_args)) :
          /\ \E e \in {BindManager_mount_all(
                          [w |-> World, mounts |-> bm_mounts, res |-> "none"],
                          symlinks, BaseDir, bind_args, answers)} :
                 /\ fs' = e.w.fs
                 /\ mtab' = e.w.mtab
                 /\ bm_mounts' = e.mounts
                 /\ bind_last' = [op |-> "mount_all", mgr |-> "BindManager",
                                  args |-> bind_args,
                                  recorded |-> bm_mounts, calls |-> e.w.calls,
                                  res |-> e.res]
    /\ UNCHANGED <<symlinks, bm_live, bmm_mounts, bmm_live>>
    /\ UNCHANGED <<genVars, pathVars, restVars>>

\* The sources and targets of direct BindMount::new calls.
NewSources == {path_from(<<"/", "src">>), path_from(<<"/", "srcf">>),
               path_from(<<"/", "none">>)}
NewTargets == {join(BaseDir, path_from(<<"d">>)), join(BaseDir, path_from(<<"f">>))}

\* BindMount::new(source, target, read_only), the BindMount kept by the
\* caller next to the earlier ones.
BindMountNew ==
    /\ bm_live
    /\ Len(mtab) < MaxMounts
    /\ \E source \in NewSources : \E target \in NewTargets :
       \E read_only \in BOOLEAN : \E answer \in MountAnswers :
          \E b \in {BindMount_new(World, symlinks, source, target, read_only, answer)} :
              /\ fs' = b.w.fs
              /\ mtab' = b.w.mtab
              /\ bm_mounts' = IF b.ok THEN Append(bm_mounts, target) ELSE bm_mounts
              /\ bind_last' = [op |-> "new", mgr |-> "BindMount",
                               args |-> <<[source |-> source, target |-> target,
                                           read_only |-> read_only]>>,
                               recorded |-> bm_mounts, calls |-> b.w.calls,
                               res |-> IF b.ok THEN "Ok" ELSE "Err"]
    /\ UNCHANGED <<symlinks, bm_live, bmm_mounts, bmm_live>>
    /\ UNCHANGED <<genVars, pathVars, restVars>>

\* The BindManager goes out of scope.
BM_Drop ==
    /\ bm_live
    /\ \E answers \in [1 .. Len(bm_mounts) -> UmountAnswers] :
          \E w \in {BindManager_drop(World, symlinks, bm_mounts, answers)} :
              /\ fs' = w.fs
              /\ mtab' = w.mtab
              /\ bind_last' = [op |-> "drop", mgr |-> "BindManager", args |-> <<>>,
                               recorded |-> bm_mounts, calls |-> w.calls,
                               res |-> "none"]
    /\ bm_mounts' = <<>>
    /\ bm_live' = FALSE
    /\ UNCHANGED <<symlinks, bmm_mounts, bmm_live>>
    /\ UNCHANGED <<genVars, pathVars, restVars>>

\* BindMountManager::mount_all(bind_specs)
BMM_MountAll ==
    /\ bmm_live
    /\ \E bind_specs \in ListsUpTo(BindSpecs, MaxMounts - Len(mtab)) :
       \E answers \in MountAnswerSeqs(Len(bind_specs)) :
          /\ \A i \in 1 .. Len(bind_specs) : answers[i] # "remount_fails"
          /\ \E e \in {BindMountManager_mount_all(
                          [w |-> World, mounts |-> bmm_mounts, res |-> "none"],
                          symlinks, BaseDir, bind_specs, answers)} :
                 /\ fs' = e.w.fs
                 /\ mtab' = e.w.mtab
                 /\ bmm_mounts' = e.mounts
                 /\ bind_last' = [op |-> "mount_all", mgr |-> "BindMountManager",
                                  args |-> bind_specs,
                                  recorded |-> [i \in 1 .. Len(bmm_mounts) |->
                                                   bmm_mounts[i].target],
                                  calls |-> e.w.calls, res |-> e.res]
    /\ UNCHANGED <<symlinks, bm_mounts, bm_live, bmm_live>>
    /\ UNCHANGED <<genVars, pathVars, restVars>>

\* BindMountManager::mount_all(&[bind]): a call with one spec.
BMM_MountOne ==
    /\ bmm_live
    /\ Len(mtab) < MaxMounts
    /\ \E bind \in BindSpecs : \E answer \in MountAnswers \ {"remount_fails"} :
          \E e \in {BindMountManager_mount_all(
                       [w |-> World, mounts |-> bmm_mounts, res |-> "none"],
                       symlinks, BaseDir, <<bind>>, <<answer>>)} :
              /\ fs' = e.w.fs
              /\ mtab' = e.w.mtab
              /\ bmm_mounts' = e.mounts
              /\ bind_last' = [op |-> "mount_all", mgr |-> "BindMountManager",
                               args |-> <<bind>>,
                               recorded |-> [i \in 1 .. Len(bmm_mounts) |->
                                                bmm_mounts[i].target],
                               calls |-> e.w.calls, res |-> e.res]
    /\ UNCHANGED <<symlinks, bm_mounts, bm_live, bmm_live>>
    /\ UNCHANGED <<genVars, pathVars, restVars>>

\* BindMountManager::unmount_all()
BMM_UnmountAll ==
    /\ bmm_live
    /\ \E answers \in [1 .. Len(bmm_mounts) -> UmountAnswers] :
          \E e \in {BindMountManager_unmount_all(World, symlinks, bmm_mounts,
                                                BaseDir, answers)} :
              /\ fs' = e.w.fs
              /\ mtab' = e.w.mtab
              /\ bmm_mounts' = e.mounts
              /\ bind_last' = [op |-> "unmount_all", mgr |-> "BindMountManager",
                               args |-> <<>>,
                               recorded |-> [i \in 1 .. Len(bmm_mounts) |->
                                                bmm_mounts[i].target],
                               calls |-> e.w.calls, res |-> e.res]
    /\ UNCHANGED <<symlinks, bm_mounts, bm_live, bmm_live>>
    /\ UNCHANGED <<genVars, pathVars, restVars>>

\* The BindMountManager goes out of scope.
BMM_Drop ==
    /\ bmm_live
    /\ \E answers \in [1 .. Len(bmm_mounts) -> UmountAnswers] :
          \E w \in {BindMountManager_drop(World, symlinks, bmm_mounts, answers)} :
              /\ fs' = w.fs
              /\ mtab' = w.mtab
              /\ bind_last' = [op |-> "drop", mgr |-> "BindMountManager", args |-> <<>>,
                               recorded |-> [i \in 1 .. Len(bmm_mounts) |->
                                                bmm_mounts[i].target],
                               calls |-> w.calls, res |-> "none"]
    /\ bmm_mounts' = <<>>
    /\ bmm_live' = FALSE
    /\ UNCHANGED <<symlinks, bm_mounts, bm_live>>
    /\ UNCHANGED <<genVars, pathVars, restVars>>

\* The locations the managers' recorded targets resolve to.
RecordedLocs ==
    {resolve(fs, symlinks, bm_mounts[i]).loc : i \in 1 .. Len(bm_mounts)} \cup
    {resolve(fs, symlinks, bmm_mounts[i].target).loc : i \in 1 .. Len(bmm_mounts)}

\* Another process of the host replaces a recorded mount point below /mnt
\* by a symlink to /etc.
ReplaceTargetBySymlink ==
    /\ \E loc \in RecordedLocs :
          /\ loc \in DOMAIN fs
          /\ IsPrefix(BaseDir.comps, loc) /\ loc # BaseDir.comps
          /\ symlinks' = symlinks \cup {loc}
    /\ UNCHANGED <<fs, mtab, bm_mounts, bm_live, bmm_mounts, bmm_live,
                   bind_last>>
    /\ UNCHANGED <<genVars, pathVars, restVars>>

\* Where the mountpoint is while another process has renamed it away.
MovedLoc == <<"mnt.old">>

\* A location after the rename of the directory at from to the name to.
MoveLoc(loc, from, to) ==
    IF IsPrefix(from, loc) THEN to \o SubSeq(loc, Len(from) + 1, Len(loc)) ELSE loc

\* rename(2) of a directory: the tree below it, its symlinks and the mounts
\* below it move with it.
RenameDir(from, to) ==
    /\ from \in DOMAIN fs
    /\ to \notin DOMAIN fs
    /\ fs' = [l \in {MoveLoc(x, from, to) : x \in DOMAIN fs} |-> fs[MoveLoc(l, to, from)]]
    /\ symlinks' = {MoveLoc(x, from, to) : x \in symlinks}
    /\ mtab' = [i \in 1 .. Len(mtab) |-> MoveLoc(mtab[i], from, to)]

\* Another process of the host renames the mountpoint away.
MoveMountpointAway ==
    /\ RenameDir(BaseDir.comps, MovedLoc)
    /\ UNCHANGED <<bm_mounts, bm_live, bmm_mounts, bmm_live, bind_last>>
    /\ UNCHANGED <<genVars, pathVars, restVars>>

\* It renames it back.
MoveMountpointBack ==
    /\ RenameDir(MovedLoc, BaseDir.comps)
    /\ UNCHANGED <<bm_mounts, bm_live, bmm_mounts, bmm_live, bind_last>>
    /\ UNCHANGED <<genVars, pathVars, restVars>>

\* Another process of the host replaces a recorded target below /mnt on
\* which nothing is mounted by a symlink to itself: the target exists, and
\* resolving it fails with ELOOP.
TargetBecomesLoop ==
    /\ \E loc \in RecordedLocs :
          /\ loc \in DOMAIN fs
          /\ fs[loc] # "loop"
          /\ IsPrefix(BaseDir.comps, loc) /\ loc # BaseDir.comps
          /\ ~IsMounted(mtab, loc)
          /\ fs' = [fs EXCEPT ![loc] = "loop"]
    /\ UNCHANGED <<symlinks, mtab, bm_mounts, bm_live, bmm_mounts, bmm_live,
                   bind_last>>
    /\ UNCHANGED <<genVars, pathVars, restVars>>

(***************************************************************************)
(* The bind-specifier parsers: parse_bind_mount of the example binaries    *)
(* and BindMount::parse of util/bind_mount.rs                              *)
(***************************************************************************)
\* parse_bind_mount(s): mount_point:host_path[:ro]
parse_bind_mount(s) ==
    LET parts == split(s, ":")
    IN  IF Len(parts) < 2 \/ Len(parts) > 3
        THEN [fn |-> "parse_bind_mount", ok |-> FALSE]
        ELSE [fn |-> "parse_bind_mount", ok |-> TRUE,
              mount_point |-> path_from(parts[1]),
              host_path |-> path_from(parts[2]),
              readonly |-> IF Len(parts) >= 3 THEN parts[3] = <<"ro">> ELSE FALSE]

\* The source of a parsed spec: a relative one is joined to "/".
AbsoluteSource(source) ==
    IF is_relative(source) THEN join(path_from(<<"/">>), source) ELSE source

\* BindMount::parse(spec): source:target
BindMount_parse(spec) ==
    LET parts == split(spec, ":")
    IN  IF Len(parts) # 2
        THEN [fn |-> "BindMount::parse", ok |-> FALSE]
        ELSE [fn |-> "BindMount::parse", ok |-> TRUE,
              source |-> AbsoluteSource(path_from(parts[1])),
              target |-> path_from(parts[2])]

\* Longest string handed to a parser, in pieces.
MaxArgLen == 5

\* The pieces the strings are made of.
ArgPieces == {":", "/", "a", "ro", "rw"}

IsName(c) == c \notin {":", "/"}

\* Two names never stand side by side: they would be one name.
WellFormed(s) == \A i \in 1 .. (Len(s) - 1) : ~(IsName(s[i]) /\ IsName(s[i + 1]))

ArgStrings ==
    UNION {{s \in [1 .. n -> ArgPieces] : WellFormed(s)} : n \in 0 .. MaxArgLen}

\* A string, before it is handed to a parser.
InitArg ==
    /\ parg \in ArgStrings
    /\ parsed = [fn |-> "none"]

\* The call of parse_bind_mount on the string.
ParseBindMountArg ==
    /\ parsed.fn = "none"
    /\ parsed' = parse_bind_mount(parg)
    /\ UNCHANGED parg
    /\ UNCHANGED <<genVars, pathVars, bindVars, fhVars, cmpVars, concVars>>

\* The call of BindMount::parse on the string.
BindMountParse ==
    /\ parsed.fn = "none"
    /\ parsed' = BindMount_parse(parg)
    /\ UNCHANGED parg
    /\ UNCHANGED <<genVars, pathVars, bindVars, fhVars, cmpVars, concVars>>

(***************************************************************************)
(* passthrough/file_handle.rs: FileHandle::from_name_at                    *)
(***************************************************************************)
\* pub const MAX_HANDLE_SIZE: usize = 128
MAX_HANDLE_SIZE == 128

\* CFileHandle::new(size): FamStructWrapper::new(size) refuses a size above
\* the maximum length given to generate_fam_struct_impl!, MAX_HANDLE_SIZE,
\* and the unwrap() of that Err panics.
CFileHandle_new(size) == IF size > MAX_HANDLE_SIZE THEN "panic" ELSE "ok"

\* (A variant of the test that also takes a missing file for unsupported.)
NotSupportedOrMissing(errno) == errno \in {"EOPNOTSUPP", "ENOENT"}
\* The errno of the first name_to_handle_at call that yields Ok(None).
NotSupported(errno) == errno = "EOPNOTSUPP"

\* The handle the second name_to_handle_at call filled in.
HandleOf(h) ==
    [mnt_id |-> h.mount_id, handle_bytes |-> h.needed, handle_type |-> 1,
     f_handle |-> [i \in 1 .. h.needed |-> h.mount_id]]

\* The two name_to_handle_at calls, as from_name_at issues them for a file
\* with the host's answer h: the buffer size passed and what came back.
FirstCall(h) == [handle_bytes |-> 0, ret |-> h.first]
SecondCall(h) == [handle_bytes |-> h.needed, ret |-> h.second]

\* (A variant of from_name_at that takes a failure of the second call for
\* "no handle available".)
from_name_at_lenient(h) ==
    IF h.first = "ret0"
    THEN [kind |-> "Err", err |-> "InvalidData", calls |-> <<FirstCall(h)>>]
    ELSE IF NotSupported(h.first)
    THEN [kind |-> "None", calls |-> <<FirstCall(h)>>]
    ELSE IF h.first # "EOVERFLOW"
    THEN [kind |-> "Err", err |-> h.first, calls |-> <<FirstCall(h)>>]
    ELSE IF CFileHandle_new(h.needed) = "panic"
    THEN [kind |-> "panic", calls |-> <<FirstCall(h)>>]
    ELSE IF h.second # "ok"
    THEN [kind |-> "None", calls |-> <<FirstCall(h), SecondCall(h)>>]
    ELSE [kind |-> "Some", handle |-> HandleOf(h),
          calls |-> <<FirstCall(h), SecondCall(h)>>]

\* FileHandle::from_name_at on a file for which the host answers h: the
\* first call asks for the size with handle_bytes = 0, the second fills a
\* handle of that size.  The result carries the calls that were issued.
from_name_at(h) ==
    IF h.first = "ret0"
    THEN [kind |-> "Err", err |-> "InvalidData", calls |-> <<FirstCall(h)>>]
    ELSE IF NotSupported(h.first)
    THEN [kind |-> "None", calls |-> <<FirstCall(h)>>]
    ELSE IF h.first # "EOVERFLOW"
    THEN [kind |-> "Err", err |-> h.first, calls |-> <<FirstCall(h)>>]
    ELSE IF CFileHandle_new(h.needed) = "panic"
    THEN [kind |-> "panic", calls |-> <<FirstCall(h)>>]
    ELSE IF h.second # "ok"
    THEN [kind |-> "Err", err |-> h.second,
          calls |-> <<FirstCall(h), SecondCall(h)>>]
    ELSE [kind |-> "Some", handle |-> HandleOf(h),
          calls |-> <<FirstCall(h), SecondCall(h)>>]

\* The files from_name_at is called for.
Files == {"f1", "f2"}

\* What the host answers for one file, every time it is asked: the first
\* call returns 0 or fails with an errno, telling the size needed when the
\* errno is EOVERFLOW; the second succeeds or fails with an errno.  A file
\* on an automount point keeps the size at 0 and fails again.
HostAnswers ==
    {[first |-> "EOVERFLOW", needed |-> n, second |-> s, mount_id |-> 1] :
        n \in {8, MAX_HANDLE_SIZE}, s \in {"ok", "ESTALE"}} \cup
    {[first |-> "EOVERFLOW", needed |-> 0, second |-> "EOVERFLOW", mount_id |-> 1],
     [first |-> "EOVERFLOW", needed |-> MAX_HANDLE_SIZE + 1, second |-> "ok",
      mount_id |-> 1],
     [first |-> "EOPNOTSUPP", needed |-> 0, second |-> "ok", mount_id |-> 1],
     [first |-> "ENOENT", needed |-> 0, second |-> "ok", mount_id |-> 1],
     [first |-> "ret0", needed |-> 0, second |-> "ok", mount_id |-> 1]}

\* A host with its answer for each file; no call made yet.
InitHost ==
    /\ fh_host \in [Files -> HostAnswers]
    /\ fh_seen = [f \in Files |-> {}]
    /\ fh_last = [made |-> FALSE]

\* One call of FileHandle::from_name_at for a file.
FromNameAt ==
    /\ \E f \in Files :
          \E r \in {from_name_at(fh_host[f])} :
              /\ fh_last' = [made |-> TRUE, file |-> f, res |-> r,
                             before |-> fh_seen[f]]
              /\ fh_seen' = [fh_seen EXCEPT ![f] = @ \cup {r.kind}]
    /\ UNCHANGED fh_host
    /\ UNCHANGED <<genVars, pathVars, bindVars, parseVars, cmpVars, concVars>>

(***************************************************************************)
(* passthrough/file_handle.rs: the order of CFileHandle and FileHandle     *)
(* A handle is [mnt_id, handle_bytes, handle_type, f_handle]; f_handle is  *)
(* the allocated array of c_char (i8), of which the first handle_bytes     *)
(* entries are in use.                                                     *)
(***************************************************************************)
\* Ord::cmp on integers
IntCmp(x, y) == IF x < y THEN "Less" ELSE IF x > y THEN "Greater" ELSE "Equal"

\* Ord::cmp on slices: the first differing entry decides, then the length.
RECURSIVE SliceCmp(_, _)
SliceCmp(x, y) ==
    IF Len(x) = 0 \/ Len(y) = 0 THEN IntCmp(Len(x), Len(y))
    ELSE IF x[1] # y[1] THEN IntCmp(x[1], y[1])
    ELSE SliceCmp(Tail(x), Tail(y))

\* (A variant of as_slice that takes the whole allocated array.)
as_slice_whole(f_handle, len) == f_handle
\* __IncompleteArrayField::as_slice(len)
as_slice(f_handle, len) == SubSeq(f_handle, 1, len)

\* Ord for CFileHandle; same_ptr: both sides are one and the same object.
CFileHandle_cmp(s_fh, o_fh, same_ptr) ==
    IF s_fh.handle_bytes # o_fh.handle_bytes
    THEN IntCmp(s_fh.handle_bytes, o_fh.handle_bytes)
    ELSE LET length == s_fh.handle_bytes
         IN  IF s_fh.handle_type # o_fh.handle_type
             THEN IntCmp(s_fh.handle_type, o_fh.handle_type)
             ELSE IF ~same_ptr
             THEN SliceCmp(as_slice(s_fh.f_handle, length),
                           as_slice(o_fh.f_handle, length))
             ELSE "Equal"

\* #[derive(Ord)] on FileHandle: mnt_id, then handle.
FileHandle_cmp(a, b, same_ptr) ==
    IF IntCmp(a.mnt_id, b.mnt_id) # "Equal" THEN IntCmp(a.mnt_id, b.mnt_id)
    ELSE CFileHandle_cmp(a, b, same_ptr)

\* #[derive(PartialEq)] on FileHandle, with PartialEq for CFileHandle.
FileHandle_eq(a, b, same_ptr) ==
    a.mnt_id = b.mnt_id /\ CFileHandle_cmp(a, b, same_ptr) = "Equal"

\* Entries allocated for f_handle in the handles compared.
MaxHandleBytes == 2

\* The handles compared: two mounts, two handle types, the allocated array
\* in use wholly or but for its last entry, entries -1 and 1.
Handles ==
    {[mnt_id |-> m, handle_bytes |-> n, handle_type |-> t, f_handle |-> b] :
        m \in {0, 1}, n \in {MaxHandleBytes - 1, MaxHandleBytes}, t \in {0, 1},
        b \in [1 .. MaxHandleBytes -> {-1, 1}]}

\* Three handles, before any comparison.
InitHandles ==
    /\ cmp_in \in Handles \X Handles \X Handles
    /\ cmp_out = [made |-> FALSE]

\* The comparisons among the three handles a, b, c, and of a with itself.
CompareHandles ==
    /\ ~cmp_out.made
    /\ LET a == cmp_in[1]
           b == cmp_in[2]
           c == cmp_in[3]
       IN  cmp_out' = [made |-> TRUE,
                       ab |-> FileHandle_cmp(a, b, FALSE),
                       ba |-> FileHandle_cmp(b, a, FALSE),
                       bc |-> FileHandle_cmp(b, c, FALSE),
                       ac |-> FileHandle_cmp(a, c, FALSE),
                       aa |-> FileHandle_cmp(a, a, TRUE),
                       eq_ab |-> FileHandle_eq(a, b, FALSE)]
    /\ UNCHANGED cmp_in
    /\ UNCHANGED <<genVars, pathVars, bindVars, parseVars, fhVars, concVars>>

\* No parser, from_name_at or comparison has been called.
InitParse ==
    /\ parg = <<>>
    /\ parsed = [fn |-> "none"]

InitFH ==
    /\ fh_host = <<>>
    /\ fh_seen = <<>>
    /\ fh_last = [made |-> FALSE]

InitCmp ==
    /\ cmp_in = <<>>
    /\ cmp_out = [made |-> FALSE]

InitConc == threads = <<>>

InitRest == InitParse /\ InitFH /\ InitCmp /\ InitConc

(***************************************************************************)
(* Specifications                                                          *)
(***************************************************************************)
\* The unique-inode generator.
Init == InitGen /\ InitPath /\ InitBind /\ InitRest

Next ==
    \/ GetUniqueInode
    \/ DecodeUniqueInode

Spec == Init /\ [][Next]_vars

\* The generator under concurrent calls.
InitT == InitThreads /\ InitPath /\ InitBind /\ InitParse /\ InitFH /\ InitCmp

NextConc ==
    \/ ThreadTagBlock
    \/ ThreadLoadVirtual
    \/ ThreadFetchAddVirtual

SpecConc == InitT /\ [][NextConc]_vars

\* validate_path_component.
InitP == FreshGen /\ InitPath /\ InitBind /\ InitRest

NextP == ValidatePathComponent

SpecPath == InitP /\ [][NextP]_vars

\* The BindManager of util/bind.rs and its host.
InitB == FreshGen /\ InitPath /\ InitBind /\ InitRest

NextBM ==
    \/ BM_MountAll
    \/ BM_Drop
    \/ ReplaceTargetBySymlink

SpecBM == InitB /\ [][NextBM]_vars

\* BindMount::new of util/bind.rs called directly.
NextBMNew == BindMountNew

SpecBMNew == InitB /\ [][NextBMNew]_vars

\* The BindMountManager of util/bind_mount.rs and its host.
NextBMM ==
    \/ BMM_MountAll
    \/ BMM_UnmountAll
    \/ BMM_Drop
    \/ ReplaceTargetBySymlink

SpecBMM == InitB /\ [][NextBMM]_vars

\* The BindMountManager on a host where other processes rename the
\* mountpoint and replace targets by looping symlinks.
NextBMMHost ==
    \/ BMM_MountOne
    \/ BMM_UnmountAll
    \/ MoveMountpointAway
    \/ MoveMountpointBack
    \/ TargetBecomesLoop

SpecBMMHost == InitB /\ [][NextBMMHost]_vars

\* The bind-specifier parsers.
NextParse ==
    \/ ParseBindMountArg
    \/ BindMountParse

InitA ==
    FreshGen /\ InitPath /\ InitBind /\ InitArg /\ InitFH /\ InitCmp /\ InitConc

SpecParse == InitA /\ [][NextParse]_vars

\* FileHandle::from_name_at and the host it asks.
InitH ==
    FreshGen /\ InitPath /\ InitBind /\ InitParse /\ InitHost /\ InitCmp /\ InitConc

NextFH == FromNameAt

SpecFH == InitH /\ [][NextFH]_vars

\* The comparisons of FileHandles.
InitC == FreshGen /\ InitPath /\ InitBind /\ InitParse /\ InitFH /\ InitHandles /\ InitConc

NextCmp == CompareHandles

SpecCmp == InitC /\ [][NextCmp]_vars

(***************************************************************************)
(* Claims about UniqueInodeGenerator (specification Spec)                  *)
(***************************************************************************)
IsVirtualIno(ino) == Lt(MAX_HOST_INO, ino)

PairOf(id) == <<id.dev, id.mnt>>

\* C1: two successful get_unique_inode calls made with different InodeIds
\* never return the same value.
C1_DistinctIdsDistinctValues ==
    \A a \in issued : \A b \in issued : a.id # b.id => a.val # b.val

\* Reached: a host inode and a virtual inode of the same (dev, mnt) pair, and
\* the same host inode under another pair, have all been handed a value.
C1_Witness ==
    \E a \in issued : \E b \in issued : \E c \in issued :
        /\ PairOf(a.id) = PairOf(b.id)
        /\ ~IsVirtualIno(a.id.ino) /\ IsVirtualIno(b.id.ino)
        /\ PairOf(c.id) # PairOf(a.id) /\ c.id.ino = a.id.ino

\* C2: two successful get_unique_inode calls made with the same InodeId
\* return the same value, whether or not id.ino fits 47 bits.
C2_SameIdSameValue ==
    \A a \in issued : \A b \in issued : a.id = b.id => a.val = b.val

\* C3: a returned value is below 2^56; bits 47..54 hold the tag of (dev, mnt),
\* in 1..254; bit 55 is set exactly when id.ino > MAX_HOST_INO; bits 0..46
\* hold id.ino when bit 55 is clear, the allocated counter value when set.
C3_Layout ==
    (last.made /\ last.res.ok) =>
        LET v == last.res.val
            tag == Field(v, INODE_SHIFT, VIRTUAL_FLAG_BIT - 1)
        IN  /\ \A i \in BitIdx : i > VIRTUAL_FLAG_BIT => v[i] = 0
            /\ tag = dev_mntid_map[PairOf(last.id)]
            /\ tag \in 1 .. (U8_MAX - 1)
            /\ (v[VIRTUAL_FLAG_BIT] = 1) <=> IsVirtualIno(last.id.ino)
            /\ Masked(v, 0, INODE_SHIFT - 1) =
                   IF v[VIRTUAL_FLAG_BIT] = 1 THEN last.virt_before
                   ELSE last.id.ino

\* Reached: the last tag, 254, was handed out together with the last virtual
\* counter value, 2^47-1.
C3_Witness ==
    /\ last.made /\ last.res.ok
    /\ IsVirtualIno(last.id.ino)
    /\ last.virt_before = MAX_HOST_INO
    /\ dev_mntid_map[PairOf(last.id)] = U8_MAX - 1

\* C4: get_unique_inode fails exactly when (a) the (dev, mnt) pair is new and
\* 254 tags are assigned, or (b) id.ino > MAX_HOST_INO and the virtual
\* counter has handed out 2^47-1 values; every other call succeeds.
C4_ErrorExactly ==
    last.made =>
        ((~last.res.ok) <=>
            \/ ~last.seen /\ last.ntags = U8_MAX - 1
            \/ IsVirtualIno(last.id.ino) /\ Sub1(last.virt_before) = MAX_HOST_INO)

\* Reached: with the tags and the virtual counter both used up, a call for a
\* tagged pair and a host inode that fits succeeded, after a call had failed.
C4_Witness ==
    /\ last.made /\ last.res.ok
    /\ next_unique_id = U8_MAX
    /\ Sub1(next_virtual_inode) = MAX_HOST_INO
    /\ ~IsVirtualIno(last.id.ino)
    /\ ncalls > Cardinality(issued)

\* C5: a get_unique_inode failure on tag or virtual-counter exhaustion
\* carries the ENOSPC error code.
C5_ErrorIsENOSPC ==
    (last.made /\ ~last.res.ok) => last.res.errno = "ENOSPC"

\* C18: for every InodeId with ino <= MAX_HOST_INO and every generator
\* state in which get_unique_inode succeeds, decode_unique_inode of the
\* returned value is the id itself: same dev, mnt and ino.
C18_DecodeRoundTrip ==
    (decoded.made /\ ~IsVirtualIno(last.id.ino)) =>
        decoded.res = [ok |-> TRUE, id |-> last.id]

\* Reached: the value made of the last tag, 254, and the largest host
\* inode that fits was decoded.
C18_Witness ==
    /\ decoded.made /\ decoded.res.ok
    /\ last.id.ino = MAX_HOST_INO
    /\ dev_mntid_map[PairOf(last.id)] = U8_MAX - 1

\* C21: tags are assigned per (dev, mnt) pair in order of first sight: a
\* pair keeps its tag in every later call, a newly seen pair gets the
\* number of pairs seen so far plus one (the n-th pair gets tag n), no two
\* pairs share a tag, and the returned value carries the pair's tag,
\* whatever the ino of the call.
C21_TagsInOrderOfFirstSight ==
    [][/\ \A p \in DOMAIN dev_mntid_map :
              /\ p \in DOMAIN dev_mntid_map'
              /\ dev_mntid_map'[p] = dev_mntid_map[p]
       /\ \A p \in DOMAIN dev_mntid_map' \ DOMAIN dev_mntid_map :
              /\ dev_mntid_map'[p] = Cardinality(DOMAIN dev_mntid_map) + 1
              /\ \A q \in DOMAIN dev_mntid_map : dev_mntid_map[q] # dev_mntid_map'[p]
       /\ (last'.made /\ last'.res.ok) =>
              /\ PairOf(last'.id) \in DOMAIN dev_mntid_map'
              /\ Field(last'.res.val, INODE_SHIFT, VIRTUAL_FLAG_BIT - 1) =
                     dev_mntid_map'[PairOf(last'.id)]]_vars

\* Reached: a new generator has seen three pairs, one of them through a
\* virtual inode, and they hold the tags 1, 2 and 3.
C21_Witness ==
    /\ DOMAIN dev_mntid_map = Pairs
    /\ {dev_mntid_map[p] : p \in Pairs} = {1, 2, 3}
    /\ \E x \in issued : IsVirtualIno(x.id.ino)

\* The values issued for inode numbers that do not fit 47 bits.
VirtualIssued == {x \in issued : IsVirtualIno(x.id.ino)}

\* The payload of a value: its low 47 bits.
PayloadOf(v) == Masked(v, 0, INODE_SHIFT - 1)

RECURSIVE AddN(_, _)
AddN(a, n) == IF n = 0 THEN a ELSE AddN(Add1(a), n - 1)

\* The values the virtual counter starts from.
VirtStarts == {FromNat(1), SubN(Add1(MAX_HOST_INO), VirtHeadroom)}

C27_ErrorLeavesGeneratorUnchanged ==
    (last.made /\ ~last.res.ok) =>
        /\ Cardinality(DOMAIN dev_mntid_map) = last.ntags
        /\ next_unique_id = last.ntags + 1
        /\ last.virt_after = last.virt_before

\* The calls that have returned a value.
Returned == {t \in Threads : threads[t].pc = "done" /\ threads[t].res.ok}

\* C26: under concurrent calls the results are pairwise distinct for
\* distinct InodeIds, no tag is held by two pairs, and no virtual payload
\* exceeds MAX_HOST_INO, also when calls race while the virtual counter
\* reaches its limit.
C26_ConcurrentCallsStayInLayout ==
    /\ \A t \in Returned : \A u \in Returned :
           threads[t].id # threads[u].id => threads[t].res.val # threads[u].res.val
    /\ \A p \in DOMAIN dev_mntid_map : \A q \in DOMAIN dev_mntid_map :
           (p \in Pairs /\ p # q) => dev_mntid_map[p] # dev_mntid_map[q]
    /\ \A t \in Returned :
           IsVirtualIno(threads[t].id.ino) => Le(threads[t].fetched, MAX_HOST_INO)

(***************************************************************************)
(* Claims about validate_path_component (specification SpecPath)           *)
(***************************************************************************)
Dot == <<46>>
DotDot == <<46, 46>>

\* C6: validate_path_component returns EINVAL for "." and "..", and for
\* every name containing '/', and Ok for every other non-empty name,
\* including names that merely begin with a dot.
C6_RejectsDotDotDotSlashOnly ==
    (vres # "none" /\ name # <<>>) =>
        (vres = "EINVAL" <=>
            (name = Dot \/ name = DotDot \/ contains(name, SLASH_ASCII)))

\* Reached: the name "..a" was validated and accepted.
C6_Witness ==
    /\ name = <<46, 46, 97>>
    /\ vres = "Ok"

\* C7: validate_path_component rejects the empty name with EINVAL.
C7_EmptyRejected ==
    (vres # "none" /\ name = <<>>) => vres = "EINVAL"

(***************************************************************************)
(* Claims about the bind managers (specifications SpecBM and SpecBMM)      *)
(***************************************************************************)
\* The canonical base directory / mountpoint.
BaseLoc == resolve(fs, symlinks, BaseDir).loc

LastCalls == {bind_last.calls[i] : i \in 1 .. Len(bind_last.calls)}

IsMountCall(c) == c.call \in {"mount(MS_BIND)", "mount(MS_BIND|MS_REC)"}
IsUmountCall(c) == c.call \in {"umount", "umount2(MNT_DETACH)"}

\* C8: no bind mount is ever installed on a target that, once resolved,
\* lies outside the base directory: mount_all rejects every escaping target
\* before mounting anything for it.
C8_NoMountOutsideBase ==
    \A c \in LastCalls :
        (IsMountCall(c) /\ c.res = "ok") => IsPrefix(BaseLoc, c.loc)

\* C9: every unmount system call of the BindMountManager, from unmount_all
\* or from Drop, is issued only for a recorded target whose canonical path
\* lies under the canonical mountpoint.
C9_UnmountOnlyUnderMountpoint ==
    bind_last.mgr = "BindMountManager" =>
        \A c \in LastCalls :
            (IsUmountCall(c) /\ c.loc # Unresolved) => IsPrefix(BaseLoc, c.loc)

\* C10: bind mounts are torn down in the reverse of the order they were
\* installed in: of two recorded mounts, the later one's unmount is
\* attempted first, in unmount_all and in the drop of either manager.
C10_TeardownInReverseOrder ==
    bind_last.op \in {"unmount_all", "drop"} =>
        \A i \in 1 .. Len(bind_last.calls) : \A j \in 1 .. Len(bind_last.calls) :
            (/\ i < j
             /\ bind_last.calls[i].call = "umount"
             /\ bind_last.calls[j].call = "umount")
            => bind_last.calls[i].rec > bind_last.calls[j].rec

\* C11: unmounting one target tries a plain unmount first, and a detach
\* (MNT_DETACH) unmount is attempted only right after the plain unmount of
\* the same target failed with EBUSY; after any other failure of the plain
\* unmount no detach is attempted.
C11_DetachOnlyAfterBusy ==
    \A i \in 1 .. Len(bind_last.calls) :
        bind_last.calls[i].call = "umount2(MNT_DETACH)" =>
            /\ i > 1
            /\ bind_last.calls[i - 1].call = "umount"
            /\ bind_last.calls[i - 1].rec = bind_last.calls[i].rec
            /\ bind_last.calls[i - 1].res = "EBUSY"

(***************************************************************************)
(* Claims about the bind-specifier parsers (specification SpecParse)       *)
(***************************************************************************)
\* C12: bind-specifier parsing accepts exactly "target:host_path" and
\* "target:host_path:ro" and rejects every other string: fewer than two or
\* more than three fields, and any third field other than "ro", such as
\* "rw" or the empty string (here: parse_bind_mount of the examples).
C12_ParseAcceptsExactly ==
    parsed.fn = "parse_bind_mount" =>
        LET parts == split(parg, ":")
        IN  parsed.ok <=>
                \/ Len(parts) = 2
                \/ Len(parts) = 3 /\ parts[3] = <<"ro">>

\* The positions of the colons of a string.
Colons(s) == {i \in 1 .. Len(s) : s[i] = ":"}

\* C20: BindMount::parse accepts exactly the strings of two colon-separated
\* fields and rejects those of one field or of three or more; on success
\* target is the second field unchanged and source is the first field,
\* prefixed with "/" when it is relative.
C20_ParseTwoFields ==
    parsed.fn = "BindMount::parse" =>
        /\ parsed.ok <=> Cardinality(Colons(parg)) = 1
        /\ parsed.ok =>
               LET k == CHOOSE i \in Colons(parg) : TRUE
                   first == SubSeq(parg, 1, k - 1)
                   second == SubSeq(parg, k + 1, Len(parg))
               IN  /\ parsed.target = path_from(second)
                   /\ parsed.source =
                          IF Len(first) > 0 /\ first[1] = "/" THEN path_from(first)
                          ELSE path_from(<<"/">> \o first)

\* Reached: "a:/a" was parsed, its relative source made absolute.
C20_Witness ==
    /\ parsed.fn = "BindMount::parse"
    /\ parsed.ok
    /\ parg = <<"a", ":", "/", "a">>
    /\ parsed.source = path_from(<<"/", "a">>)

C14_MountAllIdempotent ==
    (bind_last.mgr = "BindMountManager" /\ bind_last.op = "mount_all") =>
        \A c \in LastCalls :
            (IsMountCall(c) /\ c.res = "ok") =>
                \A i \in 1 .. Len(bind_last.recorded) : bind_last.recorded[i] # c.path

\* C15: when the source of a bind spec does not exist, mount_all returns
\* an error for that spec and leaves the host and the records as the specs
\* before it left them: no target created, no mount system call and no
\* record for the failing spec, and the earlier mounts of the call recorded.
C15_MissingSourceLeavesNoTrace ==
    [][(/\ bind_last'.mgr = "BindMountManager"
        /\ bind_last'.op = "mount_all"
        /\ bind_last'.res = "Err(source)"
        /\ symlinks' = symlinks) =>
           LET k == Len(bind_last'.calls)
               before == BindMountManager_mount_all(
                             [w |-> World, mounts |-> bmm_mounts, res |-> "none"],
                             symlinks, BaseDir, SubSeq(bind_last'.args, 1, k),
                             [i \in 1 .. k |-> "ok"])
           IN  /\ k < Len(bind_last'.args)
               /\ ~exists(before.w.fs, symlinks, bind_last'.args[k + 1].source)
               /\ fs' = before.w.fs
               /\ mtab' = before.w.mtab
               /\ bind_last'.calls = before.w.calls
               /\ bmm_mounts' = before.mounts
               /\ Len(bmm_mounts') = Len(bmm_mounts) + k]_vars

\* Reached: a mount_all whose second spec names a missing source failed,
\* after it had mounted and recorded its first spec on a new target.
C15_Witness ==
    /\ bind_last.mgr = "BindMountManager"
    /\ bind_last.op = "mount_all"
    /\ bind_last.res = "Err(source)"
    /\ Len(bind_last.calls) = 1
    /\ Len(bmm_mounts) = Len(bind_last.recorded) + 1
    /\ ~exists(fs, symlinks, TargetPath(BaseDir, bind_last.args[2]))

\* C24: for a read-only spec BindMount::new issues a plain bind mount and
\* then, only if the bind succeeded, a remount with the bind, remount and
\* read-only flags on the same target; for a spec that is not read-only it
\* issues the bind mount only.
C24_BindThenRemount ==
    (bind_last.mgr = "BindMount" /\ bind_last.op = "new") =>
        LET c == bind_last.calls
            a == bind_last.args[1]
        IN  /\ Len(c) <= 2
            /\ Len(c) >= 1 =>
                   /\ c[1].call = "mount(MS_BIND)"
                   /\ c[1].path = a.target
            /\ Len(c) = 2 <=>
                   (Len(c) >= 1 /\ a.read_only /\ c[1].res = "ok")
            /\ Len(c) = 2 =>
                   /\ c[2].call = "mount(MS_BIND|MS_REMOUNT|MS_RDONLY)"
                   /\ c[2].path = a.target
            /\ (Len(c) >= 1 /\ c[Len(c)].res = "ok") <=> bind_last.res = "Ok"

\* Reached: a read-only BindMount::new made its two system calls on a
\* target that an earlier, plain BindMount::new had mounted with one.
C24_Witness ==
    /\ bind_last.mgr = "BindMount"
    /\ bind_last.op = "new"
    /\ bind_last.args[1].read_only
    /\ bind_last.res = "Ok"
    /\ Len(bind_last.calls) = 2
    /\ bind_last.calls[2].res = "ok"
    /\ Len(bind_last.recorded) = 1
    /\ Len(mtab) = 2

\* The locations a BindManager's records resolve to.
BindManagerLocs ==
    {resolve(fs, symlinks, bm_mounts[i]).loc : i \in 1 .. Len(bm_mounts)}

\* C28: each bind mount a manager installed that is still mounted is in the
\* manager's list, after mount_all returned Ok or Err and after unmount_all
\* returned.
C28_MountedIsRecorded ==
    (bm_live /\ symlinks = {}) =>
        \A i \in 1 .. Len(mtab) : mtab[i] \in BindManagerLocs

\* C25: whenever BindMountManager::mount_all issues a mount for a spec, the
\* target exists and has the kind of the source: a directory for a
\* directory source, a non-directory for a file source.
C25_MountOnSameKind ==
    (bind_last.mgr = "BindMountManager" /\ bind_last.op = "mount_all") =>
        \A k \in 1 .. Len(bind_last.calls) :
            LET c == bind_last.calls[k]
                bind == bind_last.args[k]
            IN  /\ c.loc # Unresolved
                /\ (fs[c.loc] = "dir") = is_dir(fs, symlinks, bind.source)

\* A step of BindMountManager::unmount_all: the latest operation is an
\* unmount_all and the file tree is the one before the step (the steps of
\* other processes change it).
UnmountAllStep ==
    /\ bind_last'.mgr = "BindMountManager"
    /\ bind_last'.op = "unmount_all"
    /\ fs' = fs
    /\ symlinks' = symlinks

\* C29: when the mountpoint cannot be canonicalised, unmount_all returns an
\* error, issues no unmount system call, and leaves the record list and the
\* mounts as they were.
C29_UnresolvedMountpointKeepsRecords ==
    [][(UnmountAllStep /\ ~exists(fs, symlinks, BaseDir)) =>
           /\ bind_last'.res = "Err(mountpoint)"
           /\ bind_last'.calls = <<>>
           /\ bmm_mounts' = bmm_mounts
           /\ mtab' = mtab]_vars

\* Reached: unmount_all failed on the mountpoint while the manager held a
\* record and its mount was in place.
C29_Witness ==
    /\ bind_last.mgr = "BindMountManager"
    /\ bind_last.op = "unmount_all"
    /\ bind_last.res = "Err(mountpoint)"
    /\ bmm_mounts # <<>>
    /\ mtab # <<>>
    /\ ~exists(fs, symlinks, BaseDir)

\* The records unmount_all has to attempt, in the state before the call:
\* those marked mounted whose target canonicalises to a place under the
\* canonical mountpoint.
ToAttempt(i) ==
    LET v == validate_mount_target(fs, symlinks, bmm_mounts[i].target)
    IN  /\ bmm_mounts[i].mounted
        /\ v.kind = "Valid"
        /\ UnderMountpoint(v.canonical, resolve(fs, symlinks, BaseDir).loc)

\* The records whose target exists and cannot be canonicalised.
FailsValidation(i) ==
    /\ bmm_mounts[i].mounted
    /\ validate_mount_target(fs, symlinks, bmm_mounts[i].target).kind =
           "ValidationFailed"

C17_OversizedHandleIsNone ==
    (/\ fh_last.made
     /\ fh_host[fh_last.file].first = "EOVERFLOW"
     /\ fh_host[fh_last.file].needed > MAX_HANDLE_SIZE) =>
        fh_last.res.kind = "None"

\* C23: from_name_at issues at most two name_to_handle_at calls, the first
\* with a zero-byte buffer, the second only after the first failed with
\* EOVERFLOW and with a buffer of the size the first call reported; a first
\* call that returns 0 yields InvalidData, a first call failing with another
\* errno than EOVERFLOW or EOPNOTSUPP yields that error, and a failure of
\* the second call yields its error, never Ok(None).
C23_TwoCallSequence ==
    fh_last.made =>
        LET h == fh_host[fh_last.file]
            r == fh_last.res
            c == r.calls
        IN  /\ Len(c) \in {1, 2}
            /\ c[1] = [handle_bytes |-> 0, ret |-> h.first]
            /\ Len(c) = 2 =>
                   /\ c[1].ret = "EOVERFLOW"
                   /\ c[2] = [handle_bytes |-> h.needed, ret |-> h.second]
            /\ h.first = "ret0" => (r.kind = "Err" /\ r.err = "InvalidData")
            /\ h.first \notin {"ret0", "EOVERFLOW", "EOPNOTSUPP"} =>
                   (r.kind = "Err" /\ r.err = h.first)
            /\ (Len(c) = 2 /\ c[2].ret # "ok") =>
                   (r.kind = "Err" /\ r.err = c[2].ret)

\* Reached: a call whose second name_to_handle_at, with a buffer of 8 bytes,
\* failed with ESTALE and which returned that error.
C23_Witness ==
    /\ fh_last.made
    /\ Len(fh_last.res.calls) = 2
    /\ fh_last.res.calls[2] = [handle_bytes |-> 8, ret |-> "ESTALE"]
    /\ fh_last.res.kind = "Err"

\* The entries of a handle that are in use.
UsedBytes(h) == SubSeq(h.f_handle, 1, h.handle_bytes)

\* x comes before y in the lexicographic order of equally long sequences.
LexLess(x, y) ==
    \E k \in 1 .. Len(x) :
        /\ x[k] < y[k]
        /\ \A j \in 1 .. (k - 1) : x[j] = y[j]

\* a comes before b by mnt_id, then handle_bytes, then handle_type, then
\* the bytes in use.
Before(a, b) ==
    \/ a.mnt_id < b.mnt_id
    \/ /\ a.mnt_id = b.mnt_id
       /\ \/ a.handle_bytes < b.handle_bytes
          \/ /\ a.handle_bytes = b.handle_bytes
             /\ \/ a.handle_type < b.handle_type
                \/ /\ a.handle_type = b.handle_type
                   /\ LexLess(UsedBytes(a), UsedBytes(b))

SameHandle(a, b) ==
    /\ a.mnt_id = b.mnt_id
    /\ a.handle_bytes = b.handle_bytes
    /\ a.handle_type = b.handle_type
    /\ UsedBytes(a) = UsedBytes(b)

\* C19: two FileHandles compare equal exactly when mnt_id, handle_bytes,
\* handle_type and the first handle_bytes bytes of f_handle are equal;
\* otherwise they are ordered by mnt_id, then handle_bytes, then
\* handle_type, then the bytes lexicographically; the order is a strict
\* total order: antisymmetric and transitive.
C19_HandleOrder ==
    cmp_out.made =>
        LET a == cmp_in[1]
            b == cmp_in[2]
        IN  /\ cmp_out.eq_ab <=> SameHandle(a, b)
            /\ cmp_out.ab = "Equal" <=> SameHandle(a, b)
            /\ cmp_out.ab = "Less" <=> Before(a, b)
            /\ cmp_out.ab = "Greater" <=> Before(b, a)
            /\ cmp_out.aa = "Equal"
            /\ cmp_out.ab = "Less" <=> cmp_out.ba = "Greater"
            /\ cmp_out.ab = "Equal" <=> cmp_out.ba = "Equal"
            /\ (cmp_out.ab = "Less" /\ cmp_out.bc = "Less") => cmp_out.ac = "Less"
            /\ (cmp_out.ab = "Equal" /\ cmp_out.bc = "Equal") => cmp_out.ac = "Equal"

\* Reached: two handles that differ only in an allocated entry beyond
\* handle_bytes compared equal, and both came before a third that differs
\* in its last byte in use.
C19_Witness ==
    /\ cmp_out.made
    /\ cmp_in[1] # cmp_in[2]
    /\ cmp_out.eq_ab
    /\ cmp_out.bc = "Less" /\ cmp_out.ac = "Less"
    /\ cmp_in[2].mnt_id = cmp_in[3].mnt_id
    /\ cmp_in[2].handle_bytes = cmp_in[3].handle_bytes
    /\ cmp_in[2].handle_type = cmp_in[3].handle_type

====
